---------------------------- MODULE Spec2Model ----------------------------
(***************************************************************************)
(* Command execution and confirmation subsystem of cliz / cliq.            *)
(*                                                                         *)
(* Two programs share the design: cliz (src/src/cliz/main.py with          *)
(* src/src/cliz/shell.py) and its predecessor cliq (src/main.py with       *)
(* src/src/cliq/model.py).  `variant` says which one is running.           *)
(*                                                                         *)
(* Python strings are modelled as sequences of tokens (a token is a TLA+   *)
(* string standing for a character or a word), so that concatenation,      *)
(* strip(), lower(), startswith() and repr() are computed, not assumed.    *)
(***************************************************************************)
EXTENDS Integers, Sequences, FiniteSets, TLC

VARIABLES
    variant,          \* "cliz" | "cliq": which program is running
    auto_mode,        \* global auto_mode, set once in main()
    available_tools,  \* cliq only: names of the configured tools
    pc,               \* "Idle" | "AwaitingResponse" | "Stopped"
    live,             \* TRUE iff console._live is started (rendering)
    fc,               \* the function call being served (or the last one)
    trace,            \* what the current call did, in program order
    popen,            \* shell lines handed to the OS by the current call
    answer,           \* the last line the user submitted to the prompt
    outcome,          \* how the current call ended
    history,          \* one summary per finished call, oldest first
    inv               \* the invocation under study of the runner's parts:
                      \* SpecRunner, SpecTruncate, SpecHelp, SpecStream

vars == <<variant, auto_mode, available_tools, pc, live, fc, trace, popen,
          answer, outcome, history, inv>>

(***************************************************************************)
(* Bounds of the model.                                                    *)
(***************************************************************************)
MaxCalls == 2      \* tool calls the language model issues in one run
MaxReads == 2      \* lines the user types at one confirmation prompt
MaxLines == 2      \* lines a child writes to one stream (short outputs)
MaxInput == 3      \* lines handed to _truncate_output on its own
MaxLimit == 2      \* largest tail_lines handed to _truncate_output
MaxWrites == 3     \* lines a streamed child writes in all
PipeCap == 2       \* lines an OS pipe holds before a write to it blocks

(***************************************************************************)
(* Text.                                                                   *)
(***************************************************************************)
Str(s) == IF s = "" THEN <<>> ELSE <<s>>

Whitespace == {" ", "\n", "\t", "            "}

RECURSIVE LStrip(_)
LStrip(t) ==
    IF t # <<>> /\ Head(t) \in Whitespace THEN LStrip(Tail(t)) ELSE t

RECURSIVE RStrip(_)
RStrip(t) ==
    IF t # <<>> /\ t[Len(t)] \in Whitespace
    THEN RStrip(SubSeq(t, 1, Len(t) - 1)) ELSE t

\* str.strip()
Strip(t) == RStrip(LStrip(t))

LowerTok(c) == CASE c = "Y" -> "y" [] c = "N" -> "n" [] OTHER -> c

\* str.lower()
Lower(t) == [i \in 1..Len(t) |-> LowerTok(t[i])]

\* ''.join(lines), halving the list to keep the recursion shallow
RECURSIVE Join(_)
Join(lines) ==
    IF lines = <<>> THEN <<>>
    ELSE IF Len(lines) = 1 THEN lines[1]
    ELSE LET mid == Len(lines) \div 2
         IN  Join(SubSeq(lines, 1, mid))
             \o Join(SubSeq(lines, mid + 1, Len(lines)))

\* str.startswith
StartsWith(t, prefix) ==
    Len(t) >= Len(prefix) /\ SubSeq(t, 1, Len(prefix)) = prefix


(***************************************************************************)
(* Output Bound: ShellToolkit._truncate_output.                            *)
(***************************************************************************)
TailLimit == 100   \* default of tail_lines

\* lines[-n:] of a Python list (lines[-0:] is the whole list)
LastN(lines, n) ==
    IF n = 0 \/ n >= Len(lines) THEN lines
    ELSE IF n > 0 THEN SubSeq(lines, Len(lines) - n + 1, Len(lines))
    ELSE SubSeq(lines, 1 - n, Len(lines))

EscapeTok(c) == IF c = "\n" THEN "\\n" ELSE c

\* repr() of one str
ReprStr(t) == <<"'">> \o [i \in 1..Len(t) |-> EscapeTok(t[i])] \o <<"'">>

\* the items of a list's repr(), separated by ", "
RECURSIVE ReprItems(_)
ReprItems(lines) ==
    IF lines = <<>> THEN <<>>
    ELSE IF Len(lines) = 1 THEN ReprStr(lines[1])
    ELSE LET mid == Len(lines) \div 2
         IN  ReprItems(SubSeq(lines, 1, mid)) \o <<", ">>
             \o ReprItems(SubSeq(lines, mid + 1, Len(lines)))

\* what an f-string makes of a list of str: its repr()
ReprList(lines) == <<"[">> \o ReprItems(lines) \o <<"]">>

_truncate_output(lines, tail_lines) ==
    IF Len(lines) <= tail_lines
    THEN Join(lines)
    ELSE LET kept == LastN(lines, tail_lines)
         IN  Strip(<<"...(truncated ", ToString(Len(kept)), " lines)...",
                     "\n", "            ">>
                   \o ReprList(kept)
                   \o <<"\n", "            ">>)

(***************************************************************************)
(* The child process, as the operating system presents it to the runner:   *)
(* either creating it raises, or it writes lines to its two streams and    *)
(* exits with a return code.                                               *)
(***************************************************************************)
LineHi   == <<"hi", "\n">>
LineBoom == <<"boom", "\n">>
LineErr  == <<"Error: ", "boom", "\n">>
LineSet  == {LineHi, LineBoom, LineErr}

ExcText == <<"[Errno 2] No such file or directory: 'nodir'">>

ShortOutputs == UNION {[1..n -> LineSet] : n \in 0..MaxLines}
LongOutput   == [i \in 1..(TailLimit + 1) |-> IF i = 1 THEN LineBoom ELSE LineHi]
Outputs      == ShortOutputs \cup {LongOutput}

ReturnCodes == {0, 1, 2}

Raising == [raises |-> TRUE, exc |-> ExcText, returncode |-> 0,
            out |-> <<>>, err |-> <<>>]

Procs ==
    {Raising} \cup
    [raises : {FALSE}, exc : {<<>>}, returncode : ReturnCodes,
     out : Outputs, err : Outputs]

\* the child processes the mediated calls are run against
MediatedProcs ==
    {Raising} \cup
    [raises : {FALSE}, exc : {<<>>}, returncode : {0, 1},
     out : {<<>>, <<LineHi>>, <<LineErr>>}, err : {<<>>, <<LineBoom>>}]

(***************************************************************************)
(* Values a tool returns.                                                  *)
(***************************************************************************)
StrValue(t) == [type |-> "str", text |-> t]

CommandResult(success, stdout, stderr) ==
    [type |-> "CommandResult", success |-> success,
     stdout |-> stdout, stderr |-> stderr]

\* f"{command} {args}"; args is a text already
FullCommand(command, args) == Str(command) \o <<" ">> \o args

(***************************************************************************)
(* Process Runner, cliz: ShellToolkit.execute.                             *)
(***************************************************************************)
\* output_lines / error_lines after the capture
Captured(lines, stream_output) ==
    IF stream_output THEN lines
    ELSE IF Join(lines) # <<>> THEN <<Join(lines)>> ELSE <<>>

\* seeded fault: a failed command reports its standard output
ShellToolkit_execute_StdoutOnFailure(command, args, work_dir, stream, p) ==
    [raised |-> FALSE, exc |-> "",
     events |-> <<"Popen">>,
     line   |-> FullCommand(command, args),
     cwd    |-> work_dir,
     value  |->
        IF p.raises
        THEN StrValue(<<"Error: ">> \o p.exc)
        ELSE IF p.returncode = 0
        THEN StrValue(_truncate_output(Captured(p.out, stream),
                                       TailLimit))
        ELSE StrValue(<<"Error: ">>
                      \o _truncate_output(Captured(p.out, stream),
                                          TailLimit))]

ShellToolkit_execute(command, args, work_dir, stream_output, p) ==
    LET full_command == FullCommand(command, args)
        output_lines == Captured(p.out, stream_output)
        error_lines  == Captured(p.err, stream_output)
    IN  [raised |-> FALSE, exc |-> "",
         events |-> <<"Popen">>,
         line   |-> full_command,
         cwd    |-> work_dir,
         value  |->
            IF p.raises
            THEN StrValue(<<"Error: ">> \o p.exc)
            ELSE IF p.returncode = 0
            THEN StrValue(_truncate_output(output_lines, TailLimit))
            ELSE StrValue(<<"Error: ">>
                          \o _truncate_output(error_lines, TailLimit))]

(***************************************************************************)
(* Process Runner, the earlier variants.                                   *)
(***************************************************************************)
\* src/src/cliz/model.py: merged string, no Output Bound
ClizCommandLineTool_execute(name, args, work_dir, p) ==
    [raised |-> FALSE, exc |-> "",
     events |-> <<"subprocess.run">>,
     line   |-> FullCommand(name, args),
     cwd    |-> work_dir,
     value  |->
        IF p.raises THEN StrValue(<<"Error: ">> \o p.exc)
        ELSE IF p.returncode = 0 THEN StrValue(Join(p.out))
        ELSE StrValue(<<"Error: ">> \o Join(p.err))]

\* seeded fault: success does not look at the return code
CommandLineTool_execute_AlwaysSuccess(name, args, work_dir, p) ==
    [raised |-> FALSE, exc |-> "",
     events |-> <<"subprocess.run">>,
     line   |-> FullCommand(name, args),
     cwd    |-> work_dir,
     value  |->
        IF p.raises THEN CommandResult(FALSE, <<>>, p.exc)
        ELSE CommandResult(TRUE, Join(p.out), Join(p.err))]

\* src/src/cliq/model.py: structured result
CommandLineTool_execute(name, args, work_dir, p) ==
    [raised |-> FALSE, exc |-> "",
     events |-> <<"subprocess.run">>,
     line   |-> FullCommand(name, args),
     cwd    |-> work_dir,
     value  |->
        IF p.raises THEN CommandResult(FALSE, <<>>, p.exc)
        ELSE CommandResult(p.returncode = 0, Join(p.out), Join(p.err))]

\* src/model.py: structured result, optional "uv run" prefix
Tool_execute(name, is_uv_tool, args, work_dir, p) ==
    [raised |-> FALSE, exc |-> "",
     events |-> <<"subprocess.run">>,
     line   |-> IF is_uv_tool
                THEN <<"uv run ">> \o FullCommand(name, args)
                ELSE FullCommand(name, args),
     cwd    |-> work_dir,
     value  |->
        IF p.raises THEN CommandResult(FALSE, <<>>, p.exc)
        ELSE CommandResult(p.returncode = 0, Join(p.out), Join(p.err))]

(***************************************************************************)
(* ShellToolkit.help / CommandLineTool.help: the synthesized arguments.    *)
(***************************************************************************)
NoneValue == "<None>"

\* `if sub_command`: None and "" are both falsy
Truthy(x) == x # NoneValue /\ x # ""

\* seeded fault: the sub-command is dropped
HelpArgs_FlagOnly(sub_command, help_arg) == Str(help_arg)

\* f"{sub_command} {help_arg}" if sub_command else help_arg
HelpArgs(sub_command, help_arg) ==
    IF Truthy(sub_command)
    THEN Str(sub_command) \o <<" ">> \o Str(help_arg)
    ELSE Str(help_arg)

ShellToolkit_help(command, sub_command, help_arg, p) ==
    ShellToolkit_execute(command, HelpArgs(sub_command, help_arg), ".",
                         FALSE, p)

\* cliq: help_arg is the tool's own, "-h" unless the configuration sets it
CommandLineTool_help(name, sub_command, p) ==
    CommandLineTool_execute(name, HelpArgs(sub_command, "-h"), ".", p)

(***************************************************************************)
(* ShellToolkit.run and ShellToolkit.run_background are called by          *)
(* src/src/cliz/main.py but are not defined in src/src/cliz/shell.py; they *)
(* are modelled from spec.md 4.1, 4.3 and 4.5.                             *)
(***************************************************************************)
ShellToolkit_run(command, args, work_dir, stream_output, p) ==
    ShellToolkit_execute(command, args, work_dir, stream_output, p)

BgProcs ==
    {[raises |-> FALSE, pid |-> 4242, exc |-> <<>>],
     [raises |-> TRUE,  pid |-> 0,    exc |-> ExcText]}

\* seeded fault: a failed process creation is not caught
ShellToolkit_run_background_Raises(command, args, work_dir, b) ==
    [raised |-> b.raises, exc |-> IF b.raises THEN "OSError" ELSE "",
     events |-> <<"mkstemp", "Popen">>,
     line   |-> FullCommand(command, args),
     cwd    |-> work_dir,
     value  |->
        IF b.raises
        THEN [type |-> "none"]
        ELSE [type |-> "dict", ok |-> TRUE, pid |-> b.pid,
              command |-> FullCommand(command, args), work_dir |-> work_dir,
              output_file |-> "/tmp/tmpfile", error |-> <<>>]]

ShellToolkit_run_background(command, args, work_dir, b) ==
    [raised |-> FALSE, exc |-> "",
     events |-> <<"mkstemp", "Popen">>,
     line   |-> FullCommand(command, args),
     cwd    |-> work_dir,
     value  |->
        IF b.raises
        THEN [type |-> "dict", ok |-> FALSE, pid |-> 0, command |-> <<>>,
              work_dir |-> "", output_file |-> "", error |-> b.exc]
        ELSE [type |-> "dict", ok |-> TRUE, pid |-> b.pid,
              command |-> FullCommand(command, args), work_dir |-> work_dir,
              output_file |-> "/tmp/tmpfile", error |-> <<>>]]

(***************************************************************************)
(* Tool Mediator: the tools declared to the language model.                *)
(***************************************************************************)
ToolsOf(v) ==
    IF v = "cliz"
    THEN {"get_tool_help", "run_shell_command", "run_shell_command_background"}
    ELSE {"get_tool_help", "execute_command"}

\* seeded fault: the background tool is declared without the pre-hook
GatedWithoutBackground == {"run_shell_command", "execute_command"}

\* the tools declared with pre_hook=confirm_command_execution
Gated == {"run_shell_command", "run_shell_command_background",
          "execute_command"}

Commands    == {"", "git"}
ArgStrings  == {"", "status"}
SubCommands == {NoneValue, "commit"}
WorkDirs    == {"."}

Returned(v) ==
    [kind |-> "returned", value |-> v, exc |-> "", message |-> <<>>]

Raised(exc, message) ==
    [kind |-> "raised", value |-> [type |-> "none"], exc |-> exc,
     message |-> message]

NoOutcome ==
    [kind |-> "none", value |-> [type |-> "none"], exc |-> "",
     message |-> <<>>]

NoCall ==
    [tool |-> "none", command |-> "", args |-> "", sub_command |-> NoneValue,
     help_arg |-> "", work_dir |-> "."]

\* what the operating system does with the process a call starts: the
\* child of a foreground run, whether its output is streamed, and the
\* creation of a background child
DefaultEnv == [p |-> Raising, stream |-> FALSE,
               b |-> CHOOSE b \in BgProcs : b.raises]

\* the part of the environment a tool reads
EnvsOf(tool) ==
    CASE tool = "run_shell_command" ->
            [p : MediatedProcs, stream : BOOLEAN, b : {DefaultEnv.b}]
      [] tool = "run_shell_command_background" ->
            [p : {DefaultEnv.p}, stream : {DefaultEnv.stream}, b : BgProcs]
      [] OTHER ->
            [p : MediatedProcs, stream : {DefaultEnv.stream},
             b : {DefaultEnv.b}]

\* cliq get_tool_help (src/main.py)
Cliq_get_tool_help(tools, command, sub_command, p) ==
    IF command \notin tools
    THEN \* CommandResult(success=False, stderr=...) omits the required
         \* field stdout: constructing it raises
         [raised |-> TRUE, exc |-> "ValidationError", events |-> <<>>,
          line |-> <<>>, cwd |-> ".", value |-> [type |-> "none"]]
    ELSE CommandLineTool_help(command, sub_command, p)

\* the body of the tool, run once the call is let through
ToolFunction(v, tools, call, e) ==
    CASE v = "cliz" /\ call.tool = "get_tool_help" ->
            ShellToolkit_help(call.command, call.sub_command,
                              call.help_arg, e.p)
      [] v = "cliz" /\ call.tool = "run_shell_command" ->
            ShellToolkit_run(call.command, Str(call.args), call.work_dir,
                             e.stream, e.p)
      [] v = "cliz" /\ call.tool = "run_shell_command_background" ->
            ShellToolkit_run_background(call.command, Str(call.args),
                                        call.work_dir, e.b)
      [] v = "cliq" /\ call.tool = "get_tool_help" ->
            Cliq_get_tool_help(tools, call.command, call.sub_command, e.p)
      [] v = "cliq" /\ call.tool = "execute_command" ->
            CommandLineTool_execute(call.command, Str(call.args),
                                    call.work_dir, e.p)

(***************************************************************************)
(* Confirmation Gate: confirm_command_execution.                           *)
(***************************************************************************)
\* seeded fault: the automatic-mode test is missing
BypassNever(auto) == FALSE

\* `if auto_mode: return`
Bypass(auto) == auto

\* the lines a user may type at the prompt
UserLines ==
    {<<>>, <<" ">>, <<"y">>, <<" ", "y", " ">>, <<"Y">>, <<"n">>, <<"N">>,
     <<"x">>}

NoAnswer == <<"<no answer>">>

\* One read of Prompt.ask("...", choices=["y", "n"], default="y"): an empty
\* line gives the default, a line that is one of the choices once stripped
\* gives that choice, any other line is refused and the prompt is repeated.
PromptAsk(line) ==
    IF line = <<>> THEN [valid |-> TRUE, value |-> <<"y">>]
    ELSE IF Strip(line) \in {<<"y">>, <<"n">>}
    THEN [valid |-> TRUE, value |-> Strip(line)]
    ELSE [valid |-> FALSE, value |-> <<>>]

\* Prompt.ask(...).strip().lower()
Response(value) == Lower(Strip(value))

\* seeded fault: the answer is not looked at
RefusedNever(response) == FALSE

\* seeded fault: the test is inverted
RefusedInverted(response) == response = <<"y">>

\* `if response != "y": raise StopAgentRun(...)`
Refused(response) == response # <<"y">>

CancelMessage == <<"Command execution cancelled by user">>

(***************************************************************************)
(* The run of the agent: one action per step of a tool call.               *)
(***************************************************************************)
IsLaunch(ev) == ev \in {"Popen", "subprocess.run"}

Launches(r) ==
    [i \in 1..Len(SelectSeq(r.events, IsLaunch)) |->
        [line |-> r.line, cwd |-> r.cwd]]

\* what the user told the prompt with a line
Said(line) ==
    IF line = NoAnswer THEN "nothing"
    ELSE IF line = <<>> \/ line \in {<<"y">>, <<" ", "y", " ">>} THEN "yes"
    ELSE IF line = <<"n">> THEN "no"
    ELSE "other"

Summary(call, gate, line, launched, o) ==
    [tool |-> call.tool, gate |-> gate, said |-> Said(line),
     launched |-> launched, kind |-> o.kind]

\* the pre-hook is over and let the call through: the tool's body runs and
\* its value (or its exception) ends the call
Finish(call, tr, gate, line, e) ==
    \E r \in {ToolFunction(variant, available_tools, call, e)} :
        /\ trace' = tr \o r.events
                       \o <<IF r.raised THEN "raise" ELSE "return">>
        /\ popen' = Launches(r)
        /\ outcome' = IF r.raised THEN Raised(r.exc, <<>>)
                       ELSE Returned(r.value)
        /\ pc' = IF r.raised THEN "Stopped" ELSE "Idle"
        /\ history' = Append(history,
                             Summary(call, gate, line, Len(popen'),
                                     outcome'))

CanCall(call) ==
    /\ pc = "Idle"
    /\ Len(history) < MaxCalls
    /\ call.tool \in ToolsOf(variant)

\* the calls the language model may make of a tool
Calls(tool) ==
    IF tool = "get_tool_help"
    THEN [tool : {tool}, command : Commands, args : {""},
          sub_command : SubCommands, help_arg : {"-h"}, work_dir : {"."}]
    ELSE [tool : {tool}, command : Commands, args : ArgStrings,
          sub_command : {NoneValue}, help_arg : {""}, work_dir : WorkDirs]

\* a tool declared without a pre-hook: its body runs at once
CallUngated(call, e) ==
    /\ CanCall(call)
    /\ call.tool \notin Gated
    /\ fc' = call
    /\ answer' = NoAnswer
    /\ Finish(call, <<>>, "ungated", NoAnswer, e)
    /\ UNCHANGED <<variant, auto_mode, available_tools, live, inv>>

\* a gated tool in automatic mode: the pre-hook returns at once
CallGatedAuto(call, e) ==
    /\ CanCall(call)
    /\ call.tool \in Gated
    /\ Bypass(auto_mode)
    /\ fc' = call
    /\ answer' = NoAnswer
    /\ Finish(call, <<"pre_hook", "pre_hook.return">>, "bypassed", NoAnswer,
              e)
    /\ UNCHANGED <<variant, auto_mode, available_tools, live, inv>>

\* a gated tool otherwise: the pre-hook stops the live display, prints the
\* command and blocks in Prompt.ask
CallGatedPrompt(call) ==
    /\ CanCall(call)
    /\ call.tool \in Gated
    /\ ~Bypass(auto_mode)
    /\ fc' = call
    /\ answer' = NoAnswer
    /\ live' = FALSE
    /\ trace' = <<"pre_hook", "live.stop", "console.print">>
    /\ popen' = <<>>
    /\ outcome' = NoOutcome
    /\ pc' = "AwaitingResponse"
    /\ UNCHANGED <<variant, auto_mode, available_tools, history, inv>>

Reads(tr) == Len(SelectSeq(tr, LAMBDA ev : ev = "input"))

\* the user submits a line the prompt refuses: it asks again
UserRetries(line) ==
    /\ pc = "AwaitingResponse"
    /\ Reads(trace) + 1 < MaxReads
    /\ ~PromptAsk(line).valid
    /\ answer' = line
    /\ trace' = Append(trace, "input")
    /\ UNCHANGED <<variant, auto_mode, available_tools, pc, live, fc, popen,
                   outcome, history, inv>>

\* the user submits a line the prompt accepts, and is refused by the gate
UserDeclines(line) ==
    /\ pc = "AwaitingResponse"
    /\ PromptAsk(line).valid
    /\ Refused(Response(PromptAsk(line).value))
    /\ answer' = line
    /\ live' = TRUE
    /\ trace' = trace \o <<"input", "live.start", "raise StopAgentRun">>
    /\ outcome' = Raised("StopAgentRun", CancelMessage)
    /\ pc' = "Stopped"
    /\ history' = Append(history,
                         Summary(fc, "rejected", line, 0,
                                 Raised("StopAgentRun", CancelMessage)))
    /\ UNCHANGED <<variant, auto_mode, available_tools, fc, popen, inv>>

\* the user submits a line the prompt accepts, and the gate lets through
UserApproves(line, tool, e) ==
    /\ pc = "AwaitingResponse"
    /\ tool = fc.tool
    /\ PromptAsk(line).valid
    /\ ~Refused(Response(PromptAsk(line).value))
    /\ answer' = line
    /\ live' = TRUE
    /\ Finish(fc, trace \o <<"input", "live.start", "pre_hook.return">>,
              "approved", line, e)
    /\ UNCHANGED <<variant, auto_mode, available_tools, fc, inv>>

\* the read itself fails (end of input, an interrupt): the exception leaves
\* the pre-hook from inside Prompt.ask
PromptFails ==
    /\ pc = "AwaitingResponse"
    /\ trace' = trace \o <<"input", "raise EOFError">>
    /\ outcome' = Raised("EOFError", <<>>)
    /\ pc' = "Stopped"
    /\ history' = Append(history,
                         Summary(fc, "error", answer, 0,
                                 Raised("EOFError", <<>>)))
    /\ UNCHANGED <<variant, auto_mode, available_tools, live, fc, popen,
                   answer, inv>>

NoInv ==
    [impl |-> "none", stream |-> FALSE, proc |-> Raising, events |-> <<>>,
     line |-> <<>>, cwd |-> ".", value |-> [type |-> "none"]]

Init ==
    /\ variant \in {"cliz", "cliq"}
    /\ auto_mode \in BOOLEAN
    /\ available_tools \in (IF variant = "cliq" THEN {{}, {"git"}} ELSE {{}})
    /\ pc = "Idle"
    /\ live = TRUE
    /\ fc = NoCall
    /\ trace = <<>>
    /\ popen = <<>>
    /\ answer = NoAnswer
    /\ outcome = NoOutcome
    /\ history = <<>>
    /\ inv = NoInv

AllTools == ToolsOf("cliz") \cup ToolsOf("cliq")

Next ==
    \/ \E t \in AllTools : \E call \in Calls(t), e \in EnvsOf(t) :
          CallUngated(call, e)
    \/ \E t \in AllTools : \E call \in Calls(t), e \in EnvsOf(t) :
          CallGatedAuto(call, e)
    \/ \E t \in AllTools : \E call \in Calls(t) :
          CallGatedPrompt(call)
    \/ \E l \in UserLines : UserRetries(l)
    \/ \E l \in UserLines : UserDeclines(l)
    \/ \E l \in UserLines : \E t \in AllTools : \E e \in EnvsOf(t) :
          UserApproves(l, t, e)
    \/ PromptFails

Spec == Init /\ [][Next]_vars

(***************************************************************************)
(* The Process Runner on its own: the child process is drawn first, then   *)
(* one of the implementations is applied to it.                            *)
(***************************************************************************)
Invocation(impl, stream, p, r) ==
    [impl |-> impl, stream |-> stream, proc |-> p, events |-> r.events,
     line |-> r.line, cwd |-> r.cwd, value |-> r.value]

MediatorIdle ==
    UNCHANGED <<variant, auto_mode, available_tools, pc, live, fc, trace,
                popen, answer, outcome, history>>

ExecuteShellToolkit(c, a, stream) ==
    /\ inv.impl = "none"
    /\ inv' = Invocation("ShellToolkit.execute", stream, inv.proc,
                         ShellToolkit_execute(c, Str(a), ".", stream,
                                              inv.proc))
    /\ MediatorIdle

ExecuteClizModel(c, a) ==
    /\ inv.impl = "none"
    /\ inv' = Invocation("cliz.CommandLineTool.execute", FALSE, inv.proc,
                         ClizCommandLineTool_execute(c, Str(a), ".",
                                                     inv.proc))
    /\ MediatorIdle

ExecuteCliqModel(c, a) ==
    /\ inv.impl = "none"
    /\ inv' = Invocation("cliq.CommandLineTool.execute", FALSE, inv.proc,
                         CommandLineTool_execute(c, Str(a), ".", inv.proc))
    /\ MediatorIdle

ExecuteTool(c, uv, a) ==
    /\ inv.impl = "none"
    /\ inv' = Invocation("Tool.execute", FALSE, inv.proc,
                         Tool_execute(c, uv, Str(a), ".", inv.proc))
    /\ MediatorIdle

InitRunner ==
    /\ variant = "cliz"
    /\ auto_mode = FALSE
    /\ available_tools = {}
    /\ pc = "Idle"
    /\ live = TRUE
    /\ fc = NoCall
    /\ trace = <<>>
    /\ popen = <<>>
    /\ answer = NoAnswer
    /\ outcome = NoOutcome
    /\ history = <<>>
    /\ \E p \in Procs : inv = [NoInv EXCEPT !.proc = p]

NextRunner ==
    \E c \in {"git"}, a \in {"status"} :
        \/ \E stream \in BOOLEAN : ExecuteShellToolkit(c, a, stream)
        \/ ExecuteClizModel(c, a)
        \/ ExecuteCliqModel(c, a)
        \/ \E uv \in BOOLEAN : ExecuteTool(c, uv, a)

SpecRunner == InitRunner /\ [][NextRunner]_vars

(***************************************************************************)
(* The Output Bound on its own: the list of lines and the limit are drawn  *)
(* first, then _truncate_output is applied to them.                        *)
(***************************************************************************)
\* a last line may lack its newline
LineTail == <<"tail">>

TruncateInputs ==
    UNION {[1..n -> LineSet \cup {LineTail}] : n \in 0..MaxInput}

TruncateCall(lines, tail_lines, done, value) ==
    [impl |-> IF done THEN "_truncate_output" ELSE "none",
     lines |-> lines, tail_lines |-> tail_lines, value |-> value]

Truncate ==
    /\ inv.impl = "none"
    /\ inv' = TruncateCall(inv.lines, inv.tail_lines, TRUE,
                           _truncate_output(inv.lines, inv.tail_lines))
    /\ MediatorIdle

InitTruncate ==
    /\ variant = "cliz"
    /\ auto_mode = FALSE
    /\ available_tools = {}
    /\ pc = "Idle"
    /\ live = TRUE
    /\ fc = NoCall
    /\ trace = <<>>
    /\ popen = <<>>
    /\ answer = NoAnswer
    /\ outcome = NoOutcome
    /\ history = <<>>
    /\ \E lines \in TruncateInputs, tail_lines \in 0..MaxLimit :
          inv = TruncateCall(lines, tail_lines, FALSE, <<>>)

NextTruncate == Truncate

SpecTruncate == InitTruncate /\ [][NextTruncate]_vars


(***************************************************************************)
(* get_tool_help on its own: the child process is drawn first, then the    *)
(* tool is called with a command, a sub-command and a help flag.           *)
(***************************************************************************)
\* an argument the caller leaves out, and what the signature puts for it
Omitted == "<omitted>"
DefaultSubCommand == NoneValue
DefaultHelpArg == "-h"

OrDefault(x, default) == IF x = Omitted THEN default ELSE x

HelpSubCommands == {Omitted, NoneValue, "", "commit"}
HelpFlags == {Omitted, "-h", "--help"}

HelpCall(command, sub_command, help_arg, p, r) ==
    [impl |-> "get_tool_help", command |-> command,
     sub_command |-> sub_command, help_arg |-> help_arg, proc |-> p,
     events |-> r.events, line |-> r.line, cwd |-> r.cwd,
     value |-> r.value]

\* get_tool_help -> ShellToolkit().help(command, sub_command, help_arg)
GetToolHelp(command, sub_command, help_arg) ==
    /\ inv.impl = "none"
    /\ inv' = HelpCall(command, sub_command, help_arg, inv.proc,
                       ShellToolkit_help(command,
                                         OrDefault(sub_command,
                                                   DefaultSubCommand),
                                         OrDefault(help_arg, DefaultHelpArg),
                                         inv.proc))
    /\ MediatorIdle

InitHelp == InitRunner

NextHelp ==
    \E c \in Commands, sub \in HelpSubCommands, h \in HelpFlags :
        GetToolHelp(c, sub, h)

SpecHelp == InitHelp /\ [][NextHelp]_vars

(***************************************************************************)
(* The streaming read loop of ShellToolkit.execute against a running       *)
(* child.  The child writes its lines, in the order of its program, to two *)
(* pipes of bounded capacity: a write to a full pipe blocks it.  The       *)
(* runner's readline() blocks while the pipe is empty and the child has    *)
(* not closed it.  A line is modelled by its position in the program.      *)
(***************************************************************************)
Programs == UNION {[1..n -> {"out", "err"}] : n \in 0..MaxWrites}

StreamStart(program) ==
    [impl |-> "stream", program |-> program, written |-> 0,
     child |-> "running", out_pipe |-> <<>>, err_pipe |-> <<>>,
     rpc |-> "stdout.readline", output_lines |-> <<>>,
     error_lines |-> <<>>]

\* the child writes its next line, unless the pipe it writes to is full
ChildWrites ==
    /\ inv.child = "running"
    /\ inv.written < Len(inv.program)
    /\ LET n == inv.written + 1
       IN  IF inv.program[n] = "out"
           THEN /\ Len(inv.out_pipe) < PipeCap
                /\ inv' = [inv EXCEPT !.written = n,
                                      !.out_pipe = Append(@, n)]
           ELSE /\ Len(inv.err_pipe) < PipeCap
                /\ inv' = [inv EXCEPT !.written = n,
                                      !.err_pipe = Append(@, n)]
    /\ MediatorIdle

\* the child has written everything: it exits, which closes both pipes
ChildExits ==
    /\ inv.child = "running"
    /\ inv.written = Len(inv.program)
    /\ inv' = [inv EXCEPT !.child = "exited"]
    /\ MediatorIdle

\* stdout_line = process.stdout.readline(): a line, or '' at end of file
ReadStdout ==
    /\ inv.rpc = "stdout.readline"
    /\ IF inv.out_pipe # <<>>
       THEN inv' = [inv EXCEPT !.out_pipe = Tail(@),
                               !.output_lines = Append(@, Head(inv.out_pipe)),
                               !.rpc = "stderr.readline"]
       ELSE /\ inv.child = "exited"
            /\ inv' = [inv EXCEPT !.rpc = "stderr.readline"]
    /\ MediatorIdle

\* stderr_line = process.stderr.readline()
ReadStderr ==
    /\ inv.rpc = "stderr.readline"
    /\ IF inv.err_pipe # <<>>
       THEN inv' = [inv EXCEPT !.err_pipe = Tail(@),
                               !.error_lines = Append(@, Head(inv.err_pipe)),
                               !.rpc = "poll"]
       ELSE /\ inv.child = "exited"
            /\ inv' = [inv EXCEPT !.rpc = "poll"]
    /\ MediatorIdle

\* if process.poll() is not None
Poll ==
    /\ inv.rpc = "poll"
    /\ inv' = [inv EXCEPT !.rpc = IF inv.child = "exited"
                                  THEN "drain" ELSE "stdout.readline"]
    /\ MediatorIdle

\* for line in process.stdout / process.stderr, then break
Drain ==
    /\ inv.rpc = "drain"
    /\ inv' = [inv EXCEPT !.output_lines = @ \o inv.out_pipe,
                          !.error_lines = @ \o inv.err_pipe,
                          !.out_pipe = <<>>, !.err_pipe = <<>>,
                          !.rpc = "done"]
    /\ MediatorIdle

InitStream ==
    /\ variant = "cliz"
    /\ auto_mode = FALSE
    /\ available_tools = {}
    /\ pc = "Idle"
    /\ live = TRUE
    /\ fc = NoCall
    /\ trace = <<>>
    /\ popen = <<>>
    /\ answer = NoAnswer
    /\ outcome = NoOutcome
    /\ history = <<>>
    /\ \E program \in Programs : inv = StreamStart(program)

NextStream ==
    \/ ChildWrites
    \/ ChildExits
    \/ ReadStdout
    \/ ReadStderr
    \/ Poll
    \/ Drain

SpecStream == InitStream /\ [][NextStream]_vars

(***************************************************************************)
(* Properties.                                                             *)
(***************************************************************************)
\* the mediator's run-command and run-command-background tools
RunTools == {"run_shell_command", "run_shell_command_background",
             "execute_command"}

Has(tr, ev) == \E i \in DOMAIN tr : tr[i] = ev

Approved == Has(trace, "pre_hook.return")
Rejected == Has(trace, "raise StopAgentRun")
Launched == \E i \in DOMAIN trace : IsLaunch(trace[i])

\* C1: with automatic mode off, a run-command or run-command-background call
\* launches a shell process only after the gate was entered for that call
\* and the user answered yes to it; each launching call of the run has a yes
\* of its own, and a call answered no launches nothing.
C1_LaunchOnlyAfterApproval ==
    ~auto_mode =>
      /\ fc.tool \in RunTools =>
           \A i \in DOMAIN trace :
              IsLaunch(trace[i]) =>
                /\ Said(answer) = "yes"
                /\ trace[1] = "pre_hook"
                /\ \E j \in 1..(i - 1) :
                      /\ trace[j] = "pre_hook.return"
                      /\ \E k \in 1..(j - 1) : trace[k] = "input"
      /\ (fc.tool \in RunTools /\ popen # <<>>) => Launched
      /\ \A n \in DOMAIN history :
            /\ (history[n].tool \in RunTools /\ history[n].launched > 0)
                  => history[n].said = "yes"
            /\ history[n].said = "no" => history[n].launched = 0
      /\ Said(answer) = "no" => (popen = <<>> /\ ~Launched)

\* C1 witness: a first call approved and launched, a second call declined
C1_Witness ==
    /\ ~auto_mode
    /\ Len(history) = 2
    /\ history[1].tool \in RunTools
    /\ history[1].said = "yes"
    /\ history[1].launched = 1
    /\ history[2].tool \in RunTools
    /\ history[2].said = "no"
    /\ history[2].launched = 0

C3_PromptOnlyWhenGatedAndManual ==
    /\ (\/ Has(trace, "input")
        \/ Has(trace, "console.print")
        \/ Has(trace, "live.stop")
        \/ Has(trace, "live.start")
        \/ ~live
        \/ pc = "AwaitingResponse")
       => (~auto_mode /\ fc.tool \in RunTools)
    /\ (auto_mode /\ fc.tool \in RunTools)
       => (Approved /\ Reads(trace) = 0 /\ Launched)
    /\ fc.tool = "get_tool_help" => ~Has(trace, "pre_hook")
    /\ \A n \in DOMAIN history :
          /\ history[n].tool = "get_tool_help"
                => (history[n].gate = "ungated"
                    /\ history[n].said = "nothing")
          /\ auto_mode
                => (history[n].said = "nothing"
                    /\ history[n].gate \in {"ungated", "bypassed"})

C3_Witness ==
    /\ auto_mode
    /\ Len(history) = 2
    /\ history[1].tool = "get_tool_help"
    /\ fc.tool = "run_shell_command_background"
    /\ Approved
    /\ Launched
    /\ live

\* C4, as stated: with automatic mode off, an empty or whitespace-only line
\* and "y" (trimmed, any case) give approved, every other line rejected.
C4_AnyOtherAnswerRejects ==
    (~auto_mode /\ answer # NoAnswer) =>
        IF Strip(answer) = <<>> \/ Lower(Strip(answer)) = <<"y">>
        THEN Approved /\ ~Rejected
        ELSE Rejected /\ ~Approved

\* C4, amended: with automatic mode off, an empty line and "y" (trimmed,
\* lower case) give approved, "n" (trimmed, lower case) gives rejected, and
\* any other line (whitespace only, "Y", "N", ...) gives no decision: the
\* prompt refuses it and the gate stays in the prompt, display suspended.
C4_DecisionOfAcceptedLine ==
    (~auto_mode /\ answer # NoAnswer) =>
        IF answer = <<>> \/ Strip(answer) = <<"y">>
        THEN Approved /\ ~Rejected
        ELSE IF Strip(answer) = <<"n">>
        THEN Rejected /\ ~Approved
        ELSE ~Approved /\ ~Rejected /\ ~Launched /\ ~live

C4_Witness ==
    /\ ~auto_mode
    /\ answer = <<" ">>
    /\ pc = "AwaitingResponse"
    /\ Reads(trace) = 1

\* C5: whenever control is outside the gate the live display is running:
\* every exit of the gate that suspended it has resumed it.
C5_LiveResumedOnEveryExit ==
    pc # "AwaitingResponse" =>
        /\ live
        /\ Has(trace, "live.stop") => Has(trace, "live.start")

IsFailure(v) ==
    CASE v.type = "str" -> StartsWith(v.text, <<"Error: ">>)
      [] v.type = "CommandResult" -> ~v.success
      [] v.type = "dict" -> ~v.ok
      [] OTHER -> FALSE

\* C6: a call whose command is the empty string returns a failure result
\* at once: the user is not prompted and no shell process is launched.
C6_EmptyCommandFailsAtOnce ==
    (fc.tool # "none" /\ fc.command = "") =>
        /\ pc # "AwaitingResponse"
        /\ ~Has(trace, "console.print")
        /\ Reads(trace) = 0
        /\ popen = <<>>
        /\ ~Launched
        /\ outcome.kind = "returned"
        /\ IsFailure(outcome.value)

\* C7: every tool call ends with a result returned to the model, after
\* which a further call can be issued; no call ends with an exception.
C7_NeverRaises ==
    (fc.tool # "none" /\ pc # "AwaitingResponse") =>
        (outcome.kind = "returned" /\ pc = "Idle")

\* the content the cliz runner reports for a captured stream
Content(lines, stream_output) ==
    IF ~stream_output \/ Len(lines) <= TailLimit
    THEN Join(lines)
    ELSE _truncate_output(lines, TailLimit)

MergedImpls == {"ShellToolkit.execute", "cliz.CommandLineTool.execute"}
StructuredImpls == {"cliq.CommandLineTool.execute", "Tool.execute"}

\* C8: the process is created exactly once, and the result follows from how
\* it ended: return code 0 gives the captured standard output, another
\* return code gives "Error: " and the captured standard error, an
\* exception gives "Error: " and the exception's text.
C8_ResultFollowsExit ==
    inv.impl \in MergedImpls =>
        /\ Len(SelectSeq(inv.events, IsLaunch)) = 1
        /\ inv.proc.raises =>
              inv.value = StrValue(<<"Error: ">> \o inv.proc.exc)
        /\ (~inv.proc.raises /\ inv.proc.returncode = 0) =>
              inv.value = StrValue(Content(inv.proc.out, inv.stream))
        /\ (~inv.proc.raises /\ inv.proc.returncode # 0) =>
              inv.value = StrValue(<<"Error: ">>
                                   \o Content(inv.proc.err, inv.stream))

C8_Witness ==
    /\ inv.impl = "ShellToolkit.execute"
    /\ inv.stream
    /\ ~inv.proc.raises
    /\ inv.proc.returncode # 0
    /\ inv.proc.out = <<LineHi>>
    /\ inv.proc.err = <<LineBoom, LineBoom>>
    /\ inv.value.text = <<"Error: ">> \o LineBoom \o LineBoom

\* C9, as stated: either succeeded with output populated and errorOutput
\* empty, or not succeeded with errorOutput populated and output empty.
C9_ExactlyOnePopulated ==
    inv.impl \in StructuredImpls =>
        \/ /\ inv.value.success
           /\ inv.value.stdout # <<>>
           /\ inv.value.stderr = <<>>
        \/ /\ ~inv.value.success
           /\ inv.value.stderr # <<>>
           /\ inv.value.stdout = <<>>

\* C9, amended: succeeded is true exactly when the process was created and
\* returned 0; output and errorOutput are the two captured streams whatever
\* the outcome, except that after an exception output is empty and
\* errorOutput is the exception's text.
C9_FlagFollowsReturnCode ==
    inv.impl \in StructuredImpls =>
        IF inv.proc.raises
        THEN inv.value = CommandResult(FALSE, <<>>, inv.proc.exc)
        ELSE /\ inv.value.success = (inv.proc.returncode = 0)
             /\ inv.value.stdout = Join(inv.proc.out)
             /\ inv.value.stderr = Join(inv.proc.err)

\* C9 witness: `false`, which returns 1 and writes nothing
C9_Witness ==
    /\ inv.impl = "cliq.CommandLineTool.execute"
    /\ ~inv.proc.raises
    /\ inv.proc.returncode = 1
    /\ inv.value.success = FALSE
    /\ inv.value.stdout = <<>>
    /\ inv.value.stderr = <<>>

\* C10: the merged string begins with "Error: " if and only if the command
\* failed (nonzero return code or exception).
C10_ErrorPrefixIffFailed ==
    inv.impl \in MergedImpls =>
        (StartsWith(inv.value.text, <<"Error: ">>)
            <=> (inv.proc.raises \/ inv.proc.returncode # 0))

\* the number of lines of a text: its newlines, and a last line without one
LineCount(t) ==
    Len(SelectSeq(t, LAMBDA c : c = "\n"))
    + (IF t # <<>> /\ t[Len(t)] # "\n" THEN 1 ELSE 0)

\* C11: of N lines and a limit L, truncate returns the N lines joined in
\* their order, unmarked, when N <= L, and a text of at most L + 1 lines
\* when N > L.
C11_TruncationBound ==
    inv.impl = "_truncate_output" =>
        IF Len(inv.lines) <= inv.tail_lines
        THEN inv.value = Join(inv.lines)
        ELSE LineCount(inv.value) <= inv.tail_lines + 1

\* the marker the Output Bound is to prepend
Marker(n) == <<"...(truncated ", ToString(n), " lines)...">>

\* C12: of N > L lines, truncate returns a marker stating N - L, the number
\* of lines left out, followed by the last L lines as text in their order.
C12_MarkerCountsOmitted ==
    (inv.impl = "_truncate_output" /\ Len(inv.lines) > inv.tail_lines) =>
        LET N == Len(inv.lines)
            L == inv.tail_lines
            kept == SubSeq(inv.lines, N - L + 1, N)
        IN  /\ StartsWith(inv.value, Marker(N - L))
            /\ Strip(SubSeq(inv.value, Len(Marker(N - L)) + 1,
                            Len(inv.value)))
                  = Strip(Join(kept))

\* C16: in both capture modes, a command that writes more than the tail
\* limit of lines to the reported stream yields at most that many lines and
\* one marker line, never the full output.
C16_ResultBoundedInBothModes ==
    (inv.impl = "ShellToolkit.execute" /\ ~inv.proc.raises) =>
        LET reported == IF inv.proc.returncode = 0
                        THEN inv.proc.out ELSE inv.proc.err
            prefix   == IF inv.proc.returncode = 0
                        THEN <<>> ELSE <<"Error: ">>
        IN  Len(reported) > TailLimit =>
               /\ LineCount(inv.value.text) <= TailLimit + 1
               /\ inv.value.text # prefix \o Join(reported)

\* C13: get-help executes the command, one space and the synthesized
\* arguments: the sub-command, a space and the help flag when a sub-command
\* is given, the help flag alone otherwise, the flag being "-h" unless
\* given; the process is created once, its output captured buffered (never
\* cut), and the result follows its return code.
C13_HelpLine ==
    inv.impl = "get_tool_help" =>
        LET flag == IF inv.help_arg = Omitted THEN "-h" ELSE inv.help_arg
            present == inv.sub_command \notin {Omitted, NoneValue, ""}
            arguments == IF present
                         THEN <<inv.sub_command, " ", flag>>
                         ELSE <<flag>>
        IN  /\ inv.line = Str(inv.command) \o <<" ">> \o arguments
            /\ inv.events = <<"Popen">>
            /\ inv.cwd = "."
            /\ inv.proc.raises =>
                  inv.value = StrValue(<<"Error: ">> \o inv.proc.exc)
            /\ (~inv.proc.raises /\ inv.proc.returncode = 0) =>
                  inv.value = StrValue(Join(inv.proc.out))
            /\ (~inv.proc.raises /\ inv.proc.returncode # 0) =>
                  inv.value = StrValue(<<"Error: ">> \o Join(inv.proc.err))

\* C13 witness: get_tool_help("git", "commit") of a git that fails
C13_Witness ==
    /\ inv.impl = "get_tool_help"
    /\ inv.command = "git"
    /\ inv.sub_command = "commit"
    /\ inv.help_arg = Omitted
    /\ inv.line = <<"git", " ", "commit", " ", "-h">>
    /\ ~inv.proc.raises
    /\ inv.proc.returncode = 1
    /\ inv.proc.err = <<LineBoom>>
    /\ inv.value.text = <<"Error: ">> \o LineBoom

\* position of the first occurrence of an event in a trace, 0 if none
First(tr, ev) ==
    IF Has(tr, ev) THEN CHOOSE i \in DOMAIN tr :
                           tr[i] = ev /\ \A j \in 1..(i - 1) : tr[j] # ev
    ELSE 0

\* C14: a run-command-background call that was let through returns without
\* waiting for the command and without raising: a handle with a positive
\* process id, the command, the working directory and the output file
\* created before the process, or, when the process cannot be created, an
\* error value without a process id.
C14_BackgroundReturnsHandle ==
    (/\ fc.tool = "run_shell_command_background"
     /\ Approved
     /\ pc # "AwaitingResponse")
    =>
      /\ outcome.kind = "returned"
      /\ pc = "Idle"
      /\ ~Has(trace, "wait") /\ ~Has(trace, "communicate")
      /\ outcome.value.type = "dict"
      /\ IF outcome.value.ok
         THEN /\ outcome.value.pid > 0
              /\ outcome.value.command = FullCommand(fc.command, Str(fc.args))
              /\ outcome.value.work_dir = fc.work_dir
              /\ outcome.value.output_file # ""
              /\ 0 < First(trace, "mkstemp")
              /\ First(trace, "mkstemp") < First(trace, "Popen")
              /\ Len(popen) = 1
         ELSE /\ outcome.value.pid = 0
              /\ outcome.value.error # <<>>

\* C14 witness: the user approves, the process is created
C14_Witness ==
    /\ ~auto_mode
    /\ fc.tool = "run_shell_command_background"
    /\ fc.command = "git"
    /\ answer = <<"y">>
    /\ pc = "Idle"
    /\ outcome.kind = "returned"
    /\ outcome.value.type = "dict"
    /\ outcome.value.ok
    /\ outcome.value.pid > 0

\* the lines the child has written to a stream, in the order written
WrittenTo(stream) ==
    SelectSeq([i \in 1..inv.written |-> i],
              LAMBDA i : inv.program[i] = stream)

\* C15: the streaming read loop never deadlocks with the child: until the
\* loop has ended, the runner or the child can take a step; and when it has
\* ended the child has exited and every line it wrote is accumulated, per
\* stream, in the order written.
C15_StreamingNeverDeadlocks ==
    inv.impl = "stream" =>
        /\ inv.rpc # "done" => ENABLED NextStream
        /\ inv.rpc = "done" =>
              /\ inv.child = "exited"
              /\ inv.output_lines = WrittenTo("out")
              /\ inv.error_lines = WrittenTo("err")

=============================================================================
